---- MODULE Spec2Model ----
(***************************************************************************)
(* send_cli_command_to_nfv_inventory.py: main() reads an inventory of      *)
(* hosts and a credentials file, opens cli_response_text.txt for append,   *)
(* submits one send_command task per host to a ThreadPoolExecutor with     *)
(* max_workers=10 and writes the non-empty results in dict order.          *)
(*                                                                         *)
(* Text is modelled as it is stored: a Python str is a sequence of tokens, *)
(* the newline being the token NL, and the report file is the sequence of  *)
(* tokens written to it.  The lines of a file are obtained by splitting    *)
(* at NL (FileLines), never assumed.                                       *)
(*                                                                         *)
(* send_command touches no state shared with other tasks, so a task is     *)
(* modelled by the moment a worker takes it from the queue (StartTask) and *)
(* the moment the call returns or raises (FinishTask); what happened in    *)
(* between is computed, step by step as the code does it, by the operator  *)
(* send_command and recorded in diagnostics and calls.                     *)
(***************************************************************************)
EXTENDS Integers, Sequences, FiniteSets, TLC

VARIABLES
    inventory_file,    \* file system: [exists, lines] of the inventory file
    credentials_file,  \* file system: [exists] of the credentials file
    behaviour,         \* environment: how the i-th host of the inventory answers
    runtime,           \* environment: how the interpreter reclaims objects
    sockets,           \* the socket check_port created for task i
    report,            \* file system: content of cli_response_text.txt
    pc,                \* position of main()
    run,               \* 1 for the first invocation of the script, 2 for the second
    hosts,             \* main: hosts (line 72)
    futures,           \* main: the futures dict, in insertion order (line 83)
    cur,               \* main: position of "for future in futures" (line 84)
    outfile_open,      \* main: the report file handle is open (line 79)
    uncaught,          \* main: an exception is propagating out of main
    exit_status,       \* process exit status once pc = "exited"
    main_out,          \* what main printed
    diagnostics,       \* what task i printed
    calls,             \* the network calls task i made, in order
    written,           \* indices of the futures whose section main wrote, in order
    overtaken,         \* some task finished while an earlier submitted one had not
    run_start,         \* content of the report when this invocation started
    history            \* [before, after] report content of each finished invocation

vars == <<runtime, sockets, inventory_file, credentials_file, behaviour, report, pc, run, hosts,
          futures, cur, outfile_open, uncaught, exit_status, main_out,
          diagnostics, calls, written, overtaken, run_start, history>>

-----------------------------------------------------------------------------
(* Bounds of the model *)

\* the exhaustive scenarios have up to SmallHosts inventory lines
SmallHosts == 2
\* the large scenarios have max_workers + ExtraHosts inventory lines
ExtraHosts == 1

-----------------------------------------------------------------------------
(* Program constants *)

max_workers == 10

NL == "\n"
Whitespace == {" ", NL}

cli_command == <<"net-stats -l">>

-----------------------------------------------------------------------------
(* Text helpers *)

RECURSIVE lstrip(_)
lstrip(s) ==
    IF s # <<>> /\ Head(s) \in Whitespace THEN lstrip(Tail(s)) ELSE s

RECURSIVE rstrip(_)
rstrip(s) ==
    IF s # <<>> /\ s[Len(s)] \in Whitespace
    THEN rstrip(SubSeq(s, 1, Len(s) - 1))
    ELSE s

\* str.strip()
strip(s) == rstrip(lstrip(s))

\* outfile.writelines(lines): the strings one after the other, nothing added
RECURSIVE writelines(_)
writelines(lines) ==
    IF lines = <<>> THEN <<>> ELSE Head(lines) \o writelines(Tail(lines))

-----------------------------------------------------------------------------
(* The environment: what a host does when task i reaches it *)

Outcomes ==
    { "probe_raises",     \* connect_ex raises (socket.gaierror: name not resolved)
      "port_closed",      \* connect_ex returns an errno
      "timeout",          \* ssh.connect raises socket.timeout
      "auth_fail",        \* ssh.connect raises AuthenticationException
      "exec_fail",        \* ssh.exec_command raises SSHException
      "read_fail",        \* stdout.readlines() raises
      "ok_empty",         \* the command prints nothing
      "ok_lines",         \* the command prints two lines
      "ok_unterminated" } \* the command prints one line without a final newline

\* socket.connect_ex: 0 on success, an errno otherwise; it raises for errors
\* that are not those of the C-level connect() call
connect_ex_raises(b) == b = "probe_raises"
connect_ex(b) == IF b = "port_closed" THEN 111 ELSE 0

\* SSHClient.connect
ssh_connect(b) ==
    CASE b = "timeout" -> "timeout"
      [] b \in {"auth_fail", "port_closed", "probe_raises"} -> "error"
      [] OTHER -> "ok"

\* SSHClient.exec_command
exec_command(b) == IF b = "exec_fail" THEN "error" ELSE "ok"

\* stdout.readlines() fails while the output is read
readlines_raises(b) == b = "read_fail"

\* str(e) of the exception caught at line 48
error_text(b) ==
    CASE b = "auth_fail" -> <<"Authentication failed.">>
      [] b = "exec_fail" -> <<"SSH session not active">>
      [] b = "read_fail" -> <<"Connection reset by peer">>
      [] OTHER -> <<"Unable to connect to port 22">>

\* stdout.readlines() of task i: every line keeps its newline, the last line
\* has one only if the command printed it
readlines(b, i) ==
    CASE b = "ok_lines" -> << <<"x" \o ToString(i), NL>>, <<"y" \o ToString(i), NL>> >>
      [] b = "ok_unterminated" -> << <<"z" \o ToString(i)>> >>
      [] OTHER -> << >>

-----------------------------------------------------------------------------
(* send_command and check_port *)

PortClosedMsg(host) ==
    <<"The ESXi host ">> \o host \o <<" is not listening on port 22.">>

TimeoutMsg(host) ==
    <<"Socket timeout when trying to connect to ">> \o host \o <<".">>

OtherMsg(host, e) ==
    <<"Unable to connect to ">> \o host
      \o <<" with provided credentials. The host may have non-standard credentials. Error: ">>
      \o e

FileMissingMsg(name) == <<"The file ", name, " does not exist.">>

\* the gate is skipped: every host is taken to be listening
check_port_skipped(b) == [raised |-> FALSE, open |-> TRUE]

\* check_port(host, 22): raised, or the value returned
check_port(b) ==
    [raised |-> connect_ex_raises(b), open |-> (connect_ex(b) = 0)]

\* the session without "with ssh": close() is called on the success path only
ssh_session_unscoped(host, b, i) ==
    IF ssh_connect(b) = "timeout" THEN
        [ret |-> <<>>, raised |-> FALSE,
         diag |-> <<TimeoutMsg(host)>>,
         calls |-> <<"check_port", "connect">>]
    ELSE IF ssh_connect(b) = "error" THEN
        [ret |-> <<>>, raised |-> FALSE,
         diag |-> <<OtherMsg(host, error_text(b))>>,
         calls |-> <<"check_port", "connect">>]
    ELSE IF exec_command(b) = "error" THEN
        [ret |-> <<>>, raised |-> FALSE,
         diag |-> <<OtherMsg(host, error_text(b))>>,
         calls |-> <<"check_port", "connect", "exec_command">>]
    ELSE IF readlines_raises(b) THEN
        [ret |-> <<>>, raised |-> FALSE,
         diag |-> <<OtherMsg(host, error_text(b))>>,
         calls |-> <<"check_port", "connect", "exec_command", "readlines">>]
    ELSE
        [ret |-> readlines(b, i), raised |-> FALSE,
         diag |-> <<>>,
         calls |-> <<"check_port", "connect", "exec_command", "readlines", "close">>]

\* lines 37-51: the session, entered with "with ssh", so close() is called on
\* every way out of the block
ssh_session(host, b, i) ==
    IF ssh_connect(b) = "timeout" THEN
        [ret |-> <<>>, raised |-> FALSE,
         diag |-> <<TimeoutMsg(host)>>,
         calls |-> <<"check_port", "connect", "close">>]
    ELSE IF ssh_connect(b) = "error" THEN
        [ret |-> <<>>, raised |-> FALSE,
         diag |-> <<OtherMsg(host, error_text(b))>>,
         calls |-> <<"check_port", "connect", "close">>]
    ELSE IF exec_command(b) = "error" THEN
        [ret |-> <<>>, raised |-> FALSE,
         diag |-> <<OtherMsg(host, error_text(b))>>,
         calls |-> <<"check_port", "connect", "exec_command", "close">>]
    ELSE IF readlines_raises(b) THEN
        [ret |-> <<>>, raised |-> FALSE,
         diag |-> <<OtherMsg(host, error_text(b))>>,
         calls |-> <<"check_port", "connect", "exec_command", "readlines", "close">>]
    ELSE
        [ret |-> readlines(b, i), raised |-> FALSE,
         diag |-> <<>>,
         calls |-> <<"check_port", "connect", "exec_command", "readlines", "close">>]

\* send_command(host, credentials, cli_command) run as task i
send_command(host, b, i) ==
    IF check_port(b).raised THEN
        \* line 33 is outside the try block: the exception leaves send_command
        [ret |-> <<>>, raised |-> TRUE, diag |-> <<>>, calls |-> <<"check_port">>]
    ELSE IF ~check_port(b).open THEN
        [ret |-> <<>>, raised |-> FALSE,
         diag |-> <<PortClosedMsg(host)>>,
         calls |-> <<"check_port">>]
    ELSE ssh_session(host, b, i)

\* "refcount": an object is finalised when the last reference to it goes
\* (CPython); "tracing": it is finalised when the collector next runs
Runtimes == {"refcount", "tracing"}

\* the socket of check_port (line 26) once check_port has returned or raised:
\* check_port never calls sock.close(), the socket is closed by its finaliser.
\* When connect_ex raised, the exception kept in the future holds the frame of
\* check_port and with it the socket.
probe_socket(raised) ==
    IF raised THEN "open"
    ELSE IF runtime = "refcount" THEN "closed"
    ELSE "open"

\* the message is printed but the script goes on
sys_exit_forgotten(next_pc) == next_pc

\* sys.exit(1) after a missing file (lines 21 and 75): main goes no further
sys_exit(next_pc) == "exited"

-----------------------------------------------------------------------------
(* The report *)

\* open("cli_response_text.txt", "w") in place of "a"
open_truncate(content) == <<>>

\* open("cli_response_text.txt", "a"): the content found is kept
open_append(content) == content

\* the command is not echoed
no_command_line == <<>>

CommandLine == <<"Command run: ">> \o cli_command \o <<NL>>

\* lines 87-89
Section(host, changes) ==
    (<<"Output from ">> \o host \o <<":", NL>>) \o writelines(changes) \o <<NL>>

\* the task writes its own section to the shared report
task_writes_section(host, ret) ==
    IF ret = <<>> THEN <<>> ELSE Section(host, ret)

\* what a task writes to the report: send_command (lines 32-51) is not given
\* outfile and writes to no file
task_writes(host, ret) == <<>>

-----------------------------------------------------------------------------
(* The executor *)

N == Len(futures)

\* a worker that has run a task is never given another one
in_flight_never_released ==
    Cardinality({i \in 1..N : futures[i].state # "pending"})

InFlight == Cardinality({i \in 1..N : futures[i].state = "running"})

AllFinished == \A i \in 1..N : futures[i].state = "finished"

\* no cap on the number of worker threads
free_worker_unbounded == TRUE

\* a worker thread is idle or can still be created
free_worker == InFlight < max_workers


\* shutdown(wait=False)
shutdown_nowait == TRUE

\* ThreadPoolExecutor.__exit__: shutdown(wait=True)
shutdown_wait == AllFinished

\* the result is read without waiting for the task
result_ready_unblocked(f) == TRUE

\* future.result() blocks until the future is resolved
result_ready(f) == f.state = "finished"

\* iteration in reverse
iteration_reversed(p) == N + 1 - p

\* "for future in futures": a dict iterates in insertion order
iteration_order(p) == p

-----------------------------------------------------------------------------
(* Scenarios: the inputs of a run *)

RawLines == { <<"A", NL>>, <<" ", "B", " ", NL>> }

File(ls) == [exists |-> TRUE, lines |-> ls]
NoFile == [exists |-> FALSE, lines |-> <<>>]

SmallScenarios ==
    UNION { { [inv |-> File(ls), cred |-> TRUE, beh |-> bs] :
                ls \in [1..n -> RawLines], bs \in [1..n -> Outcomes] } :
            n \in 0..SmallHosts }

FatalScenarios ==
    { [inv |-> NoFile, cred |-> TRUE, beh |-> <<>>],
      [inv |-> NoFile, cred |-> FALSE, beh |-> <<>>],
      [inv |-> File(<< <<"A", NL>>, <<"B", NL>> >>), cred |-> FALSE,
       beh |-> <<"ok_lines", "ok_lines">>] }

LargeN == max_workers + ExtraHosts

LargeFaults == {"ok_lines", "probe_raises", "auth_fail", "ok_empty"}

LargeScenarios ==
    { [inv |-> File([i \in 1..LargeN |->
                       IF i % 2 = 1 THEN <<"A", NL>> ELSE <<" ", "B", " ", NL>>]),
       cred |-> TRUE,
       beh |-> [i \in 1..LargeN |-> IF i = 2 THEN o ELSE "ok_lines"]] :
      o \in LargeFaults }

\* an inventory with a blank line and a last line without newline
EdgeScenarios ==
    { [inv |-> File(<< <<"A", NL>>, <<NL>>, <<" ", "B">> >>), cred |-> TRUE,
       beh |-> <<"ok_lines", o, "ok_unterminated">>] :
      o \in {"port_closed", "ok_lines"} }

\* what cli_response_text.txt holds before the first invocation: nothing, or
\* what an earlier run of another command left
PriorReports == { <<>>, <<"Command run: ", "uptime", NL>> }

\* the scenarios that are also run on an interpreter without reference
\* counts: the edge scenarios and the small ones of at most one host
TracingScenarios ==
    EdgeScenarios \cup {sc \in SmallScenarios : Len(sc.beh) <= 1}

Scenarios ==
    SmallScenarios \cup FatalScenarios \cup LargeScenarios \cup EdgeScenarios

-----------------------------------------------------------------------------
(* State machine *)

Fresh ==
    /\ pc = "load_inventory"
    /\ hosts = <<>>
    /\ futures = <<>>
    /\ cur = 1
    /\ outfile_open = FALSE
    /\ uncaught = FALSE
    /\ exit_status = 0
    /\ main_out = <<>>
    /\ diagnostics = <<>>
    /\ calls = <<>>
    /\ written = <<>>
    /\ overtaken = FALSE
    /\ sockets = <<>>

Init ==
    /\ \E sc \in Scenarios, rt \in Runtimes :
         /\ rt = "refcount" \/ sc \in TracingScenarios
         /\ runtime = rt
         /\ inventory_file = sc.inv
         /\ credentials_file = [exists |-> sc.cred]
         /\ behaviour = sc.beh
         /\ \E prior \in PriorReports :
              /\ prior = <<>> \/ sc \in FatalScenarios \cup EdgeScenarios
              /\ report = prior
              /\ run_start = prior
    /\ run = 1
    /\ history = <<>>
    /\ Fresh

\* lines 70-75
LoadInventory ==
    /\ pc = "load_inventory"
    /\ IF inventory_file.exists
       THEN /\ hosts' = [k \in 1..Len(inventory_file.lines) |->
                           strip(inventory_file.lines[k])]
            /\ pc' = "load_credentials"
            /\ UNCHANGED <<main_out, exit_status>>
       ELSE /\ main_out' = Append(main_out, FileMissingMsg("inventory_file"))
            /\ exit_status' = 1
            /\ pc' = sys_exit("load_credentials")
            /\ UNCHANGED hosts
    /\ UNCHANGED <<runtime, sockets, inventory_file, credentials_file, behaviour, report, run,
                   futures, cur, outfile_open, uncaught, diagnostics, calls,
                   written, overtaken, run_start, history>>

\* line 77, load_credentials lines 15-21
LoadCredentials ==
    /\ pc = "load_credentials"
    /\ IF credentials_file.exists
       THEN /\ pc' = "open_report"
            /\ UNCHANGED <<main_out, exit_status>>
       ELSE /\ main_out' = Append(main_out, FileMissingMsg("credentials_file"))
            /\ exit_status' = 1
            /\ pc' = sys_exit("open_report")
    /\ UNCHANGED <<runtime, sockets, inventory_file, credentials_file, behaviour, report, run,
                   hosts, futures, cur, outfile_open, uncaught, diagnostics,
                   calls, written, overtaken, run_start, history>>

\* lines 79-80
OpenReport ==
    /\ pc = "open_report"
    /\ outfile_open' = TRUE
    /\ run_start' = report
    /\ report' = open_append(report) \o CommandLine
    /\ pc' = "submit"
    /\ UNCHANGED <<runtime, sockets, inventory_file, credentials_file, behaviour, run, hosts,
                   futures, cur, uncaught, exit_status, main_out, diagnostics,
                   calls, written, overtaken, history>>

\* line 83: executor.submit for the next host
Submit ==
    /\ pc = "submit"
    /\ N < Len(hosts)
    /\ futures' = Append(futures,
                     [host |-> hosts[N + 1], state |-> "pending", runs |-> 0,
                      ret |-> <<>>, raised |-> FALSE])
    /\ diagnostics' = Append(diagnostics, <<>>)
    /\ calls' = Append(calls, <<>>)
    /\ sockets' = Append(sockets, "none")
    /\ UNCHANGED <<runtime, inventory_file, credentials_file, behaviour, report, pc, run,
                   hosts, cur, outfile_open, uncaught, exit_status, main_out,
                   written, overtaken, run_start, history>>

\* line 84: the dict is built, the loop begins
StartCollect ==
    /\ pc = "submit"
    /\ N = Len(hosts)
    /\ cur' = 1
    /\ pc' = IF N = 0 THEN "shutdown" ELSE "collect"
    /\ UNCHANGED <<runtime, sockets, inventory_file, credentials_file, behaviour, report, run,
                   hosts, futures, outfile_open, uncaught, exit_status,
                   main_out, diagnostics, calls, written, overtaken, run_start, history>>

\* lines 85-89: future.result() returns or raises
Collect ==
    /\ pc = "collect"
    /\ cur <= N
    /\ LET k == iteration_order(cur)
           f == futures[k]
       IN /\ result_ready(f)
          /\ IF f.raised
             THEN /\ uncaught' = TRUE
                  /\ pc' = "shutdown"
                  /\ UNCHANGED <<report, written, cur>>
             ELSE /\ IF f.ret # <<>>
                     THEN /\ report' = report \o Section(f.host, f.ret)
                          /\ written' = Append(written, k)
                     ELSE UNCHANGED <<report, written>>
                  /\ cur' = cur + 1
                  /\ pc' = IF cur = N THEN "shutdown" ELSE "collect"
                  /\ UNCHANGED uncaught
    /\ UNCHANGED <<runtime, sockets, inventory_file, credentials_file, behaviour, run, hosts,
                   futures, outfile_open, exit_status, main_out, diagnostics,
                   calls, overtaken, run_start, history>>

\* line 82: leaving "with ThreadPoolExecutor(...)"
ExecutorShutdown ==
    /\ pc = "shutdown"
    /\ shutdown_wait
    /\ pc' = "close_report"
    /\ UNCHANGED <<runtime, sockets, inventory_file, credentials_file, behaviour, report, run,
                   hosts, futures, cur, outfile_open, uncaught, exit_status,
                   main_out, diagnostics, calls, written, overtaken, run_start, history>>

\* line 79: leaving "with open(...)"; the process ends
CloseReport ==
    /\ pc = "close_report"
    /\ outfile_open' = FALSE
    /\ exit_status' = IF uncaught THEN 1 ELSE 0
    /\ pc' = "exited"
    /\ sockets' = [i \in 1..N |-> "closed"]
    /\ UNCHANGED <<runtime, inventory_file, credentials_file, behaviour, report, run,
                   hosts, futures, cur, uncaught, main_out, diagnostics, calls,
                   written, overtaken, run_start, history>>

\* a worker thread takes the oldest work item from the queue
StartTask(i) ==
    /\ i \in 1..N
    /\ futures[i].state = "pending"
    /\ \A j \in 1..(i - 1) : futures[j].state # "pending"
    /\ free_worker
    /\ futures' = [futures EXCEPT ![i].state = "running", ![i].runs = @ + 1]
    /\ UNCHANGED <<runtime, sockets, inventory_file, credentials_file, behaviour, report, pc, run,
                   hosts, cur, outfile_open, uncaught, exit_status, main_out,
                   diagnostics, calls, written, overtaken, run_start, history>>

\* send_command returns or raises; the future is resolved
FinishTask(i) ==
    /\ i \in 1..N
    /\ futures[i].state = "running"
    /\ LET r == send_command(futures[i].host, behaviour[i], i)
       IN /\ futures' = [futures EXCEPT ![i].state = "finished",
                                        ![i].ret = r.ret,
                                        ![i].raised = r.raised]
          /\ diagnostics' = [diagnostics EXCEPT ![i] = r.diag]
          /\ calls' = [calls EXCEPT ![i] = r.calls]
          /\ sockets' = [sockets EXCEPT ![i] = probe_socket(r.raised)]
          /\ report' = report \o task_writes(futures[i].host, r.ret)
    /\ overtaken' = (overtaken \/ \E j \in 1..(i - 1) : futures[j].state # "finished")
    /\ UNCHANGED <<runtime, inventory_file, credentials_file, behaviour, pc, run,
                   hosts, cur, outfile_open, uncaught, exit_status, main_out,
                   written, run_start, history>>

\* the collector runs: the sockets no longer referenced are finalised
GarbageCollect ==
    /\ runtime = "tracing"
    /\ \E i \in 1..N : sockets[i] = "open" /\ ~futures[i].raised
    /\ sockets' = [i \in 1..N |->
                     IF sockets[i] = "open" /\ ~futures[i].raised
                     THEN "closed" ELSE sockets[i]]
    /\ UNCHANGED <<runtime, inventory_file, credentials_file, behaviour, report,
                   pc, run, hosts, futures, cur, outfile_open, uncaught,
                   exit_status, main_out, diagnostics, calls, written,
                   overtaken, run_start, history>>

\* the script is invoked a second time on the same files and hosts
Rerun ==
    /\ pc = "exited"
    /\ run = 1
    /\ run' = 2
    /\ history' = Append(history, [before |-> run_start, after |-> report])
    /\ run_start' = report
    /\ pc' = "load_inventory"
    /\ hosts' = <<>>
    /\ futures' = <<>>
    /\ cur' = 1
    /\ outfile_open' = FALSE
    /\ uncaught' = FALSE
    /\ exit_status' = 0
    /\ main_out' = <<>>
    /\ diagnostics' = <<>>
    /\ calls' = <<>>
    /\ written' = <<>>
    /\ overtaken' = FALSE
    /\ sockets' = <<>>
    /\ UNCHANGED <<runtime, inventory_file, credentials_file, behaviour, report>>

Next ==
    \/ LoadInventory
    \/ LoadCredentials
    \/ OpenReport
    \/ Submit
    \/ StartCollect
    \/ Collect
    \/ ExecutorShutdown
    \/ CloseReport
    \/ \E i \in 1..N : StartTask(i)
    \/ \E i \in 1..N : FinishTask(i)
    \/ GarbageCollect
    \/ Rerun

Spec == Init /\ [][Next]_vars

\* the steps of the main thread
MainStep ==
    \/ LoadInventory
    \/ LoadCredentials
    \/ OpenReport
    \/ Submit
    \/ StartCollect
    \/ Collect
    \/ ExecutorShutdown
    \/ CloseReport

\* the steps of the worker threads of the pool
WorkerStep == \E i \in 1..N : StartTask(i) \/ FinishTask(i)

\* one invocation of the script on the large, the edge and the fatal scenarios
LiveScenarios == LargeScenarios \cup EdgeScenarios \cup FatalScenarios

LiveInit == Init /\ [inv |-> inventory_file, cred |-> credentials_file.exists,
                     beh |-> behaviour] \in LiveScenarios

LiveNext == MainStep \/ WorkerStep \/ GarbageCollect

\* The main thread runs whenever it is not blocked, an idle worker takes the
\* next queued task, and every call of send_command returns or raises.
\* Nothing is assumed about the collector.
LiveSpec ==
    LiveInit /\ [][LiveNext]_vars /\ WF_vars(MainStep) /\ WF_vars(WorkerStep)

-----------------------------------------------------------------------------
(* Vocabulary of the properties *)

\* main printed a missing-file message: a fatal input error
Fatal == main_out # <<>>

\* this invocation went through the dispatch and has ended
RunCompleted == pc = "exited" /\ ~Fatal

Finished(i) == futures[i].state = "finished"

IsPrefix(s, t) == Len(s) <= Len(t) /\ SubSeq(t, 1, Len(s)) = s

\* what this invocation has added to the report so far
Appended == SubSeq(report, Len(run_start) + 1, Len(report))

\* position of future k in written, 0 if its section was not written
PosWritten(k) ==
    IF \E p \in 1..Len(written) : written[p] = k
    THEN CHOOSE p \in 1..Len(written) : written[p] = k
    ELSE 0

\* the lines of a text: split at every NL; a last piece without NL is a line too
RECURSIVE split_lines(_, _)
split_lines(s, line) ==
    IF s = <<>> THEN (IF line = <<>> THEN <<>> ELSE <<line>>)
    ELSE IF Head(s) = NL THEN <<line>> \o split_lines(Tail(s), <<>>)
    ELSE split_lines(Tail(s), Append(line, Head(s)))

FileLines(content) == split_lines(content, <<>>)

\* an output line without its line terminator
LineText(l) ==
    IF l # <<>> /\ l[Len(l)] = NL THEN SubSeq(l, 1, Len(l) - 1) ELSE l

\* the lines the report is specified to gain for hosts k..N: for every host with
\* a non-empty result a header line, its output lines and a blank line
RECURSIVE SpecifiedLines(_)
SpecifiedLines(k) ==
    IF k > N THEN <<>>
    ELSE (IF futures[k].ret # <<>>
          THEN <<(<<"Output from ">> \o futures[k].host \o <<":">>)>>
                 \o [j \in 1..Len(futures[k].ret) |-> LineText(futures[k].ret[j])]
                 \o << <<>> >>
          ELSE <<>>)
         \o SpecifiedLines(k + 1)

\* the sections of the futures written so far, in the order they were written
RECURSIVE SectionsOf(_)
SectionsOf(w) ==
    IF w = <<>> THEN <<>>
    ELSE Section(futures[Head(w)].host, futures[Head(w)].ret) \o SectionsOf(Tail(w))

-----------------------------------------------------------------------------
(* Properties *)

\* C1: one task per inventory entry, each taken by a worker exactly once and
\* never again, all N finished when the run ends, and never more than
\* max_workers (10) tasks in flight.
C1_BoundedPool ==
    /\ InFlight <= max_workers
    /\ N <= Len(hosts)
    /\ \A i \in 1..N :
         /\ futures[i].host = hosts[i]
         /\ futures[i].runs = (IF futures[i].state = "pending" THEN 0 ELSE 1)
    /\ pc \in {"collect", "shutdown", "close_report"} => N = Len(hosts)
    /\ RunCompleted =>
         /\ N = Len(hosts)
         /\ \A i \in 1..N : Finished(i) /\ futures[i].runs = 1

\* all ten workers are busy and a task waits in the queue
C1_Witness ==
    /\ InFlight = max_workers
    /\ \E i \in 1..N : futures[i].state = "pending"

\* C2 (as stated): a failure of one host's task at any step does not keep any
\* other host's non-empty result out of the report.
C2_FaultIsolation ==
    RunCompleted =>
        \A i \in 1..N :
            (Finished(i) /\ futures[i].ret # <<>>) => PosWritten(i) > 0

\* C3: the sections are written in submission order: the written futures are
\* in increasing order of submission, the report holds exactly their sections
\* in that order, and when a section is written every earlier host with a
\* non-empty result has its section before it.
C3_SubmissionOrder ==
    /\ \A p, q \in 1..Len(written) : p < q => written[p] < written[q]
    /\ \A q \in 1..Len(written) :
         \A i \in 1..(written[q] - 1) :
            (Finished(i) /\ futures[i].ret # <<>>)
                => (PosWritten(i) > 0 /\ PosWritten(i) < q)
    /\ (pc \in {"submit", "collect", "shutdown", "close_report"} \/ RunCompleted)
         => Appended = CommandLine \o SectionsOf(written)

\* two hosts with output, the second finished first, the first written first
C3_Witness ==
    /\ overtaken
    /\ N = 2
    /\ written = <<1, 2>>

\* C4 (as stated): what a run appends is the command line, then for each host
\* in list order with a non-empty result a header line, its output lines and
\* one blank line, and nothing for the other hosts.
C4_ReportFormat ==
    RunCompleted =>
        FileLines(Appended)
            = << <<"Command run: ">> \o cli_command >> \o SpecifiedLines(1)

\* C5: the report is closed and main ends only when every submitted task has
\* finished.
C5_JoinBarrier ==
    /\ (\E i \in 1..N : ~Finished(i))
         => (outfile_open /\ pc \in {"submit", "collect", "shutdown"})
    /\ pc \in {"close_report"} \/ RunCompleted
         => (N = Len(hosts) /\ AllFinished)

\* main has left the loop by an exception and waits for a task still in flight
C5_Witness ==
    /\ pc = "shutdown"
    /\ uncaught
    /\ \E i \in 1..N : futures[i].state = "running"

\* C6: a host whose probe reports the port closed gets no SSH session: the
\* only call is the probe, the diagnostic is the not-listening one naming the
\* host, and the result is empty.
C6_ProbeGate ==
    \A i \in 1..N :
        (Finished(i) /\ ~connect_ex_raises(behaviour[i])
                     /\ connect_ex(behaviour[i]) # 0)
            => /\ calls[i] = <<"check_port">>
               /\ diagnostics[i] = <<PortClosedMsg(hosts[i])>>
               /\ futures[i].ret = <<>>
               /\ ~futures[i].raised

C6_Witness ==
    \E i \in 1..N : Finished(i) /\ behaviour[i] = "port_closed"

\* C7 (as stated): no failure of a host leaves send_command as an error; a
\* failed task returns an empty result after exactly one diagnostic naming
\* the host, the diagnostics of the three kinds differ, and a successful task
\* prints nothing.
C7_FailuresAreDiagnostics ==
    \A i \in 1..N :
        Finished(i) =>
            /\ ~futures[i].raised
            /\ behaviour[i] \in {"ok_empty", "ok_lines", "ok_unterminated"}
                 => diagnostics[i] = <<>>
            /\ behaviour[i] \notin {"ok_empty", "ok_lines", "ok_unterminated"}
                 => /\ futures[i].ret = <<>>
                    /\ Len(diagnostics[i]) = 1
                    /\ \E p \in 1..(Len(diagnostics[i][1]) - Len(hosts[i]) + 1) :
                         SubSeq(diagnostics[i][1], p, p + Len(hosts[i]) - 1) = hosts[i]
            /\ behaviour[i] = "timeout"
                 => diagnostics[i] # <<PortClosedMsg(hosts[i])>>

\* C8: with the inventory file or the credentials file missing, the process
\* exits with a non-zero status, nothing is dispatched and no network call
\* is made.
C8_FatalBeforeDispatch ==
    (~inventory_file.exists \/ ~credentials_file.exists) =>
        /\ N = 0
        /\ calls = <<>>
        /\ pc \in {"load_inventory", "load_credentials", "exited"}
        /\ pc = "exited" => (exit_status # 0 /\ Fatal)

\* the credentials file is missing, the inventory was read, the process exited
C8_Witness ==
    /\ pc = "exited"
    /\ ~credentials_file.exists
    /\ hosts # <<>>

\* C9: a run keeps what the report held when it started as a prefix, and a
\* second run on the same hosts with the same results appends exactly what
\* the first run appended.
C9_AppendOnly ==
    /\ IsPrefix(run_start, report)
    /\ \A h \in 1..Len(history) :
         /\ IsPrefix(history[h].before, history[h].after)
         /\ IsPrefix(history[h].after, report)
    /\ (pc = "exited" /\ run = 2) =>
         Appended = SubSeq(history[1].after, Len(history[1].before) + 1,
                           Len(history[1].after))

\* the second run has ended after writing sections behind those of the first
C9_Witness ==
    /\ pc = "exited"
    /\ run = 2
    /\ written # <<>>
    /\ run_start # <<>>

\* C10 (as stated): every occurrence of a repeated host is its own task, and
\* its section is in the report exactly when its own task returned output.
C10_NoDeduplication ==
    RunCompleted =>
        /\ N = Len(hosts)
        /\ \A i, j \in 1..N :
             (i # j /\ hosts[i] = hosts[j]) =>
                 (PosWritten(i) > 0 <=> futures[i].ret # <<>>)

\* C11: a task that opened an SSH session has released it when send_command
\* has returned: after connect, close is called, once, and is the last call,
\* on the success path and on every failure path.
C11_SessionReleased ==
    \A i \in 1..N :
        (Finished(i) /\ \E p \in 1..Len(calls[i]) : calls[i][p] = "connect")
            => /\ calls[i][Len(calls[i])] = "close"
               /\ Cardinality({p \in 1..Len(calls[i]) : calls[i][p] = "close"}) = 1
               /\ Cardinality({p \in 1..Len(calls[i]) : calls[i][p] = "connect"}) = 1

\* a session that failed while the output was read has been closed
C11_Witness ==
    \E i \in 1..N :
        /\ Finished(i)
        /\ behaviour[i] = "read_fail"
        /\ calls[i] = <<"check_port", "connect", "exec_command", "readlines", "close">>

\* C12 (as stated): no section is written while any task of the batch is
\* still queued or in flight.
C12_CollectedBeforeWrite ==
    written # <<>> => AllFinished

\* C12 (amended): a section is written only when the task of its host and the
\* tasks of all hosts before it in the list have finished; the tasks of later
\* hosts may still be queued or in flight.
C12_EarlierFinishedBeforeWrite ==
    \A q \in 1..Len(written) :
        \A j \in 1..written[q] : Finished(j)

\* a section is in the report while a later task is still in flight
C12_Witness ==
    /\ written # <<>>
    /\ \E i \in 1..N : futures[i].state = "running"

\* C13 (as stated): once check_port has returned, the socket it created is
\* closed: no probe socket is open for a task that is past its probe.
C13_ProbeSocketClosed ==
    \A i \in 1..N : Finished(i) => sockets[i] = "closed"

\* C14: whenever the run has passed input loading, or some submitted task is
\* still queued or in flight (also one that waits because all workers are
\* busy), the run eventually ends with one finished task per host and the
\* report closed.  A finished task stays finished until the run has ended.
C14_PoolLiveness ==
    (pc = "open_report" \/ \E i \in 1..N : ~Finished(i))
        ~> (pc = "exited" /\ ~outfile_open /\ N = Len(hosts) /\ AllFinished)

\* a run with more hosts than workers has ended
C14_Witness ==
    /\ RunCompleted
    /\ N > max_workers
    /\ AllFinished
    /\ ~outfile_open

\* C15 (as stated): every host given to send_command is a non-empty string.
C15_HostsNonEmpty ==
    \A i \in 1..N : futures[i].host # <<>>

\* C16: the report is only changed by the main thread, and every change
\* after the command line appends the whole section of one host, the future
\* the loop is at: its header, its own output and the closing newline, with
\* nothing of another host in between.
C16_NoInterleaving ==
    [][report' # report =>
         \/ /\ pc = "open_report"
            /\ futures' = futures
         \/ /\ pc = "collect"
            /\ futures' = futures
            /\ cur <= N
            /\ Finished(cur)
            /\ written' = Append(written, cur)
            /\ report' = report
                 \o (<<"Output from ">> \o hosts[cur] \o <<":", NL>>)
                 \o writelines(futures[cur].ret)
                 \o <<NL>>]_vars

\* two sections are in the report and two tasks are still in flight
C16_Witness ==
    /\ Len(written) >= 2
    /\ InFlight >= 2

\* C17: a run that has passed input loading has appended the command line
\* exactly once, as the first thing it appended and before any task was
\* submitted; it is there when the host list is empty and when no host has
\* output.
C17_CommandLineFirst ==
    /\ pc \in {"load_inventory", "load_credentials", "open_report"}
         => (N = 0 /\ report = run_start)
    /\ (pc \in {"submit", "collect", "shutdown", "close_report"} \/ RunCompleted)
         => /\ IsPrefix(<<"Command run: ", "net-stats -l", NL>>, Appended)
            /\ Cardinality({p \in 1..Len(Appended) :
                              Appended[p] = "Command run: "}) = 1

\* a run with hosts, none with output, has ended: the command line is all it
\* appended
C17_Witness ==
    /\ RunCompleted
    /\ N > 0
    /\ written = <<>>
    /\ Appended = <<"Command run: ", "net-stats -l", NL>>

\* C18: when the inventory file or the credentials file is missing, the
\* report is never opened and holds what it held before the run.
C18_FatalLeavesReport ==
    (~inventory_file.exists \/ ~credentials_file.exists) =>
        /\ report = run_start
        /\ ~outfile_open
        /\ \A h \in 1..Len(history) : history[h].after = history[h].before
        /\ pc = "exited" => Fatal

\* the run has exited for a missing credentials file and the earlier content
\* of the report is intact
C18_Witness ==
    /\ pc = "exited"
    /\ Fatal
    /\ inventory_file.exists
    /\ report = <<"Command run: ", "uptime", NL>>

====
